---- MODULE Spec2Model ----
(***************************************************************************)
(* Workday segmentation and reconciliation engine of                       *)
(* src/pipeline/processing/processing.py (class WorkdayProcessor), driven  *)
(* in the order of src/pipeline/main_process.py:                           *)
(*   create_working_day -> merge_log_lost_and_same_apps ->                 *)
(*   delete_working_days -> add_workday_features -> process_workdays,      *)
(* and merge_consecutive_rows, the last step of preprocess_data.           *)
(*                                                                         *)
(* Time is counted in whole seconds; instant 0 is 2024-09-13 00:00:00.     *)
(* The code's minute and hour figures (total_seconds() / 60, / 3600) are   *)
(* kept as seconds: a duration d here is the code's d / 60 minutes, a gap  *)
(* g here is the code's g / 3600 hours.  Strings that the code builds or   *)
(* takes apart (session ids) are sequences of one-character strings.  The  *)
(* nine parallel per-segment lists of a session row (app, app_durations,   *)
(* app_start_times, app_end_times, mouseClicks, keystrokes, mic,           *)
(* mouseScroll, camera) are one sequence, segs, of records with those      *)
(* nine fields: the code always appends to and extends all nine together.  *)
(***************************************************************************)
EXTENDS Integers, Sequences, FiniteSets, TLC

\* ------------------------------------------------------------ constants

MINUTE == 60
HOUR == 3600

\* timedelta(seconds=20) of the 'Log Lost/Software Bug' rule
LOG_LOST_SECONDS == 20
\* df['workday_duration'] >= 45 (minutes)
MIN_WORKDAY_MINUTES == 45
\* 0 <= actual_gap_hours < 3
MERGE_GAP_HOURS == 3
\* fillna(-1) of hours_until_next_workday (hours)
NO_NEXT_HOURS == -1
\* pd.to_datetime('2024-09-05') and pd.to_datetime('2024-09-13')
START_DATE == -691200
END_DATE == 0

LogLost == "Log Lost/Software Bug"
Pause == "Pause"

\* ------------------------------------------------------------ bounds

\* largest number of rows of an input batch
MaxEvents == 3
\* largest number of segments of a session given to
\* merge_log_lost_and_same_apps on its own
MaxSegs == 3
\* largest number of sessions of a frame given to add_workday_features and
\* process_workdays on their own
MaxSessions == 3
\* largest number of rows of a frame given to merge_consecutive_rows
MaxRawEvents == 3

\* ------------------------------------------------------------ strings

Digits == <<"0", "1", "2", "3", "4", "5", "6", "7", "8", "9">>

IsDigit(c) == \E d \in 1..10 : Digits[d] = c

\* str(n) of a non-negative integer
RECURSIVE DecStr(_)
DecStr(n) ==
    IF n < 10 THEN <<Digits[n + 1]>>
    ELSE DecStr(n \div 10) \o <<Digits[(n % 10) + 1]>>

\* f'{employee_id}_{day_counter}'
FormatId(employee_id, day_counter) ==
    employee_id \o <<"_">> \o DecStr(day_counter)

\* df['employeeId'].str.extract(r'^(.*)_\d+$'), then fillna(df['employeeId']):
\* the greedy group ends before the last "_" that only digits follow
ExtractBase(id) ==
    LET ks == {k \in 1..(Len(id) - 1) :
                  /\ id[k] = "_"
                  /\ \A j \in (k + 1)..Len(id) : IsDigit(id[j])}
    IN IF ks = {} THEN id
       ELSE SubSeq(id, 1, (CHOOSE k \in ks : \A m \in ks : m <= k) - 1)

\* code points of the characters used in identifiers
CharCode(c) ==
    CASE c = "_" -> 95
      [] c = "e" -> 101
      [] IsDigit(c) -> 47 + (CHOOSE d \in 1..10 : Digits[d] = c)
      [] OTHER -> 0

\* a < b for Python str
RECURSIVE StrLess(_, _)
StrLess(a, b) ==
    IF b = <<>> THEN FALSE
    ELSE IF a = <<>> THEN TRUE
    ELSE IF CharCode(Head(a)) # CharCode(Head(b))
         THEN CharCode(Head(a)) < CharCode(Head(b))
    ELSE StrLess(Tail(a), Tail(b))

\* the keys of a groupby, in the order pandas iterates them (sorted)
RECURSIVE SortedKeys(_)
SortedKeys(S) ==
    IF S = {} THEN <<>>
    ELSE LET k == CHOOSE x \in S : \A y \in S \ {x} : StrLess(x, y)
         IN <<k>> \o SortedKeys(S \ {k})

\* ------------------------------------------------------------ sequences

RECURSIVE SumSeq(_)
SumSeq(s) == IF s = <<>> THEN 0 ELSE Head(s) + SumSeq(Tail(s))

\* sort_values('start_time') of a set of rows: every arrangement that is
\* ascending in start_time (the default quicksort does not fix the order of
\* rows with equal keys)
RECURSIVE Orders(_)
Orders(S) ==
    IF S = {} THEN {<<>>}
    ELSE UNION {{<<r>> \o t : t \in Orders(S \ {r})} :
                   r \in {x \in S : \A y \in S : x.start_time <= y.start_time}}

\* ------------------------------------------------------------ input rows

Emp1 == <<"e", "_", "1">>
Emp2 == <<"e", "_", "1", "_", "1">>

Row(emp, app, st, en, clicks, keys, mic, scroll, cam) ==
    [employeeId |-> emp, app |-> app, start_time |-> st, end_time |-> en,
     mouseClicks |-> clicks, keystrokes |-> keys, mic |-> mic,
     mouseScroll |-> scroll, camera |-> cam]

\* 09:00-09:30, 09:30:05-09:45, 09:46-10:00 and 13:00-13:30 of employee e_1
Scenario ==
    {Row(Emp1, "A", 32400, 34200, 3, 5, TRUE, 2, FALSE),
     Row(Emp1, "A", 34205, 35100, 1, 0, FALSE, 4, TRUE),
     Row(Emp1, "B", 35160, 36000, 0, 0, FALSE, 0, FALSE),
     Row(Emp1, "A", 46800, 48600, 2, 1, FALSE, 0, FALSE)}

\* The rows a batch is drawn from.  Their pairwise gaps (next start minus
\* previous end) cover: overlap, 0, 20 s, 21 s, one second below and exactly
\* 1 h and 2 h, exactly 3 h, and more; their lengths cover 30 min, exactly
\* 45 min and longer, and one row of no length that starts with another row,
\* which a third row starts inside; one row starts inside the deleted date
\* range.
EventPool ==
    {Row(Emp1, "B", -3600, 900, 1, 1, FALSE, 0, FALSE),
     Row(Emp1, "B", 29000, 32379, 0, 2, FALSE, 1, FALSE),
     Row(Emp1, "A", 29600, 32380, 4, 0, FALSE, 0, TRUE),
     Row(Emp1, "A", 32400, 34200, 3, 5, TRUE, 2, FALSE),
     Row(Emp1, "B", 34200, 36900, 2, 2, FALSE, 2, FALSE),
     Row(Emp1, "B", 39600, 43200, 1, 3, TRUE, 0, FALSE),
     Row(Emp1, "A", 43200, 46800, 0, 1, FALSE, 5, FALSE),
     Row(Emp1, "A", 46800, 48600, 2, 1, FALSE, 0, FALSE),
     Row(Emp1, "B", 46800, 46800, 1, 0, FALSE, 0, FALSE),
     Row(Emp1, "B", 47000, 49800, 0, 1, FALSE, 1, FALSE),
     Row(Emp1, "A", 50400, 53100, 3, 3, FALSE, 0, TRUE),
     Row(Emp1, "B", 50399, 53101, 0, 0, FALSE, 0, FALSE),
     Row(Emp1, "A", 52200, 55800, 1, 0, TRUE, 1, FALSE),
     Row(Emp1, "B", 57600, 60300, 0, 1, FALSE, 0, FALSE),
     Row(Emp2, "A", 36000, 39600, 1, 1, TRUE, 1, TRUE),
     Row(Emp2, "B", 43200, 46800, 0, 4, FALSE, 0, FALSE)}

\* max_workday_gap: the default timedelta(hours=2), main_process.py's
\* timedelta(hours=1), and two short ones, timedelta(seconds=10) and timedelta(0)
MaxWorkdayGaps == {2 * HOUR, 1 * HOUR, 10, 0}

Batches == {S \in SUBSET EventPool : 1 <= Cardinality(S) /\ Cardinality(S) <= MaxEvents}

\* ------------------------------------------------------------ state

VARIABLES
    pc,                     \* the statement the pipeline is at
    prepared_df,            \* the rows given to merge_consecutive_rows
    merged_df,              \* the rows it returns
    df_processed,           \* the rows given to create_working_day
    max_workday_gap,        \* its second argument
    first_run,              \* history: <<>>, or <<what an earlier run on a
                            \* larger batch returned for one employee>>
    groups,                 \* employees df.groupby has still to yield
    employee_id,            \* create_working_day's current employee
    group,                  \* that employee's rows not yet iterated
    daily,                  \* daily_apps, daily_durations, ... (zipped)
    day_counter,
    last_end,               \* <<>> for None, else <<instant>>
    start_time_of_workday,  \* <<>> for None, else <<instant>>
    result,                 \* create_working_day's result list
    working_day_df,         \* main_process.py's working_day_df (steps 6, 7)
    filtered_df,            \* main_process.py's filtered_df
    enriched_df,            \* main_process.py's enriched_df
    df,                     \* process_workdays' df
    employees,              \* df['base_employeeId'].unique() still to visit
    emp_df,                 \* process_workdays' emp_df
    idx,                    \* process_workdays' idx
    indices_to_drop,
    merge_log,              \* history: the merges done, in order
    final_df                \* main_process.py's final_df

cwdVars == <<groups, employee_id, group, daily, day_counter, last_end,
             start_time_of_workday, result>>
mainVars == <<working_day_df, filtered_df, enriched_df, final_df>>
pwVars == <<df, employees, emp_df, idx, indices_to_drop, merge_log>>
prepVars == <<prepared_df, merged_df>>
vars == <<pc, prepVars, df_processed, max_workday_gap, first_run, cwdVars,
          mainVars, pwVars>>

\* ------------------------------------------------------------ merge_consecutive_rows

\* sort_values(by=['employeeId', 'start_time']): order of two rows
EventBefore(a, b) ==
    \/ StrLess(a.employeeId, b.employeeId)
    \/ a.employeeId = b.employeeId /\ a.start_time < b.start_time

\* a row put into an ascending sequence, after the rows it does not precede
RECURSIVE InsertEvent(_, _)
InsertEvent(sorted, r) ==
    IF sorted = <<>> THEN <<r>>
    ELSE IF EventBefore(r, Head(sorted)) THEN <<r>> \o sorted
    ELSE <<Head(sorted)>> \o InsertEvent(Tail(sorted), r)

\* the two-key sort (stable)
RECURSIVE SortEvents(_)
SortEvents(rows) ==
    IF rows = <<>> THEN <<>>
    ELSE InsertEvent(SortEvents(SubSeq(rows, 1, Len(rows) - 1)), rows[Len(rows)])

\* the comparison of start_time with the previous end_time left out
MutNewGroupIgnoresGap(rows, i) ==
    \/ i = 1
    \/ rows[i].employeeId # rows[i - 1].employeeId
    \/ rows[i].app # rows[i - 1].app

\* df['new_group']: the row differs from the row above (shift()) in employeeId
\* or app, or does not start where it ends; the first row has nothing above
NewGroup(rows, i) ==
    \/ i = 1
    \/ rows[i].employeeId # rows[i - 1].employeeId
    \/ rows[i].app # rows[i - 1].app
    \/ rows[i].start_time # rows[i - 1].end_time

\* df['group_id'] = df['new_group'].cumsum()
GroupId(rows, i) == Cardinality({j \in 1..i : NewGroup(rows, j)})

\* 'max' of a boolean column
MaxFlag(flags) == \E k \in 1..Len(flags) : flags[k]

\* the agg of one group: first start_time, last end_time, first app, sums of
\* the counters, max of the flags
AggregateGroup(members) ==
    [employeeId |-> members[1].employeeId,
     app |-> members[1].app,
     start_time |-> members[1].start_time,
     end_time |-> members[Len(members)].end_time,
     mouseClicks |-> SumSeq([k \in 1..Len(members) |-> members[k].mouseClicks]),
     keystrokes |-> SumSeq([k \in 1..Len(members) |-> members[k].keystrokes]),
     mic |-> MaxFlag([k \in 1..Len(members) |-> members[k].mic]),
     mouseScroll |-> SumSeq([k \in 1..Len(members) |-> members[k].mouseScroll]),
     camera |-> MaxFlag([k \in 1..Len(members) |-> members[k].camera])]

\* the rows of group g, in the frame's order
GroupMembers(rows, g) ==
    LET first == CHOOSE i \in 1..Len(rows) :
                     GroupId(rows, i) = g /\ NewGroup(rows, i)
        last == CHOOSE i \in 1..Len(rows) :
                    /\ GroupId(rows, i) = g
                    /\ \A j \in (i + 1)..Len(rows) : GroupId(rows, j) # g
    IN SubSeq(rows, first, last)

\* merge_consecutive_rows(df).  groupby yields the keys (employeeId, group_id)
\* in ascending order: group_id grows along the frame, which is sorted by
\* employeeId, so that is the order of group_id.
MergeConsecutiveRowsDf(rows) ==
    LET sorted == SortEvents(rows)
        groups_n == IF sorted = <<>> THEN 0 ELSE GroupId(sorted, Len(sorted))
    IN SortEvents([g \in 1..groups_n |-> AggregateGroup(GroupMembers(sorted, g))])

MergeConsecutiveRows ==
    /\ pc = "merge_consecutive_rows"
    /\ merged_df' = MergeConsecutiveRowsDf(prepared_df)
    /\ pc' = "merged"
    /\ UNCHANGED <<prepared_df, df_processed, max_workday_gap, first_run,
                   cwdVars, mainVars, pwVars>>

\* ------------------------------------------------------------ create_working_day

\* the segment appended for an input row
EventSeg(row) ==
    [app |-> row.app,
     app_durations |-> row.end_time - row.start_time,
     app_start_times |-> row.start_time,
     app_end_times |-> row.end_time,
     mouseClicks |-> row.mouseClicks,
     keystrokes |-> row.keystrokes,
     mic |-> row.mic,
     mouseScroll |-> row.mouseScroll,
     camera |-> row.camera]

\* the segment appended for a gap, labelled 'Log Lost/Software Bug' or 'Pause'
FillerSeg(label, from, to) ==
    [app |-> label,
     app_durations |-> to - from,
     app_start_times |-> from,
     app_end_times |-> to,
     mouseClicks |-> 0,
     keystrokes |-> 0,
     mic |-> FALSE,
     mouseScroll |-> 0,
     camera |-> FALSE]

\* the dict appended to result
WorkdayRow(emp, counter, segs, start, end) ==
    [employeeId |-> FormatId(emp, counter),
     segs |-> segs,
     start_time |-> start,
     end_time |-> end]

\* the comparison made strict: a gap equal to max_workday_gap stays in the workday
MutStartsNewWorkdayStrict(gap, mwg) == gap > mwg

\* if gap >= max_workday_gap
StartsNewWorkday(gap, mwg) == gap >= mwg

\* the upper comparison made strict: a gap of exactly 20 s is no log loss
MutIsLogLostGapStrict(gap) == 0 < gap /\ gap < LOG_LOST_SECONDS

\* if timedelta(seconds=0) < gap <= timedelta(seconds=20)
IsLogLostGap(gap) == 0 < gap /\ gap <= LOG_LOST_SECONDS

\* one hour written in place of the max_workday_gap argument
MutIsPauseGapOneHour(gap, mwg) == LOG_LOST_SECONDS < gap /\ gap < HOUR

\* elif timedelta(seconds=20) < gap < max_workday_gap
IsPauseGap(gap, mwg) == LOG_LOST_SECONDS < gap /\ gap < mwg

\* gap = start_time - last_end, for the row the loop is at
Gap == Head(group).start_time - last_end[1]

AtRow == pc = "cwd_rows" /\ group # <<>>

\* day_counter = 1 set once before the loop over employees instead of inside it
MutCwdNextGroupKeepsCounter ==
    /\ pc = "cwd_groups"
    /\ groups # <<>>
    /\ employee_id' = Head(groups)
    /\ groups' = Tail(groups)
    /\ \E g \in Orders({r \in df_processed : r.employeeId = Head(groups)}) :
           group' = g
    /\ daily' = <<>>
    /\ day_counter' = day_counter
    /\ last_end' = <<>>
    /\ start_time_of_workday' = <<>>
    /\ pc' = "cwd_rows"
    /\ UNCHANGED <<df_processed, max_workday_gap, first_run, prepVars, result,
                   mainVars, pwVars>>

\* for employee_id, group in df.groupby('employeeId'): the next group, sorted,
\* and the loop's fresh accumulators
CwdNextGroup ==
    /\ pc = "cwd_groups"
    /\ groups # <<>>
    /\ employee_id' = Head(groups)
    /\ groups' = Tail(groups)
    /\ \E g \in Orders({r \in df_processed : r.employeeId = Head(groups)}) :
           group' = g
    /\ daily' = <<>>
    /\ day_counter' = 1
    /\ last_end' = <<>>
    /\ start_time_of_workday' = <<>>
    /\ pc' = "cwd_rows"
    /\ UNCHANGED <<df_processed, max_workday_gap, first_run, prepVars, result,
                   mainVars, pwVars>>

\* if last_end is None
CwdFirstRow ==
    /\ AtRow
    /\ last_end = <<>>
    /\ start_time_of_workday' = <<Head(group).start_time>>
    /\ last_end' = <<Head(group).end_time>>
    /\ daily' = Append(daily, EventSeg(Head(group)))
    /\ group' = Tail(group)
    /\ UNCHANGED <<pc, df_processed, max_workday_gap, first_run, prepVars,
                   groups, employee_id, day_counter, result, mainVars,
                   pwVars>>

\* day_counter += 1 left out of the branch
MutCwdNewWorkdayNoIncrement ==
    /\ AtRow
    /\ last_end # <<>>
    /\ StartsNewWorkday(Gap, max_workday_gap)
    /\ result' = Append(result,
                        WorkdayRow(employee_id, day_counter, daily,
                                   start_time_of_workday[1], last_end[1]))
    /\ day_counter' = day_counter
    /\ start_time_of_workday' = <<Head(group).start_time>>
    /\ last_end' = <<Head(group).end_time>>
    /\ daily' = <<EventSeg(Head(group))>>
    /\ group' = Tail(group)
    /\ UNCHANGED <<pc, df_processed, max_workday_gap, first_run, prepVars,
                   groups, employee_id, mainVars, pwVars>>

\* if gap >= max_workday_gap: flush the workday and start the next one
CwdNewWorkday ==
    /\ AtRow
    /\ last_end # <<>>
    /\ StartsNewWorkday(Gap, max_workday_gap)
    /\ result' = Append(result,
                        WorkdayRow(employee_id, day_counter, daily,
                                   start_time_of_workday[1], last_end[1]))
    /\ day_counter' = day_counter + 1
    /\ start_time_of_workday' = <<Head(group).start_time>>
    /\ last_end' = <<Head(group).end_time>>
    /\ daily' = <<EventSeg(Head(group))>>
    /\ group' = Tail(group)
    /\ UNCHANGED <<pc, df_processed, max_workday_gap, first_run, prepVars,
                   groups, employee_id, mainVars, pwVars>>

\* the 'Log Lost/Software Bug' filler, then the row
CwdLogLost ==
    /\ AtRow
    /\ last_end # <<>>
    /\ ~StartsNewWorkday(Gap, max_workday_gap)
    /\ IsLogLostGap(Gap)
    /\ daily' = daily \o <<FillerSeg(LogLost, last_end[1], Head(group).start_time),
                           EventSeg(Head(group))>>
    /\ last_end' = <<Head(group).end_time>>
    /\ group' = Tail(group)
    /\ UNCHANGED <<pc, df_processed, max_workday_gap, first_run, prepVars,
                   groups, employee_id, day_counter, start_time_of_workday,
                   result, mainVars, pwVars>>

\* the 'Pause' filler, then the row
CwdPause ==
    /\ AtRow
    /\ last_end # <<>>
    /\ ~StartsNewWorkday(Gap, max_workday_gap)
    /\ ~IsLogLostGap(Gap)
    /\ IsPauseGap(Gap, max_workday_gap)
    /\ daily' = daily \o <<FillerSeg(Pause, last_end[1], Head(group).start_time),
                           EventSeg(Head(group))>>
    /\ last_end' = <<Head(group).end_time>>
    /\ group' = Tail(group)
    /\ UNCHANGED <<pc, df_processed, max_workday_gap, first_run, prepVars,
                   groups, employee_id, day_counter, start_time_of_workday,
                   result, mainVars, pwVars>>

\* neither branch taken: the row alone
CwdDirect ==
    /\ AtRow
    /\ last_end # <<>>
    /\ ~StartsNewWorkday(Gap, max_workday_gap)
    /\ ~IsLogLostGap(Gap)
    /\ ~IsPauseGap(Gap, max_workday_gap)
    /\ daily' = Append(daily, EventSeg(Head(group)))
    /\ last_end' = <<Head(group).end_time>>
    /\ group' = Tail(group)
    /\ UNCHANGED <<pc, df_processed, max_workday_gap, first_run, prepVars,
                   groups, employee_id, day_counter, start_time_of_workday,
                   result, mainVars, pwVars>>

\* the final day of the employee not appended after the loop over its rows
MutCwdEndGroupNoFlush ==
    /\ pc = "cwd_rows"
    /\ group = <<>>
    /\ result' = result
    /\ pc' = "cwd_groups"
    /\ UNCHANGED <<df_processed, max_workday_gap, first_run, prepVars, groups,
                   employee_id, group, daily, day_counter, last_end,
                   start_time_of_workday, mainVars, pwVars>>

\* if daily_apps: append the final day of the employee
CwdEndGroup ==
    /\ pc = "cwd_rows"
    /\ group = <<>>
    /\ result' = IF daily # <<>>
                 THEN Append(result,
                             WorkdayRow(employee_id, day_counter, daily,
                                        start_time_of_workday[1], last_end[1]))
                 ELSE result
    /\ pc' = "cwd_groups"
    /\ UNCHANGED <<df_processed, max_workday_gap, first_run, prepVars, groups,
                   employee_id, group, daily, day_counter, last_end,
                   start_time_of_workday, mainVars, pwVars>>

\* return pd.DataFrame(result)
CwdReturn ==
    /\ pc = "cwd_groups"
    /\ groups = <<>>
    /\ working_day_df' = result
    /\ pc' = "merge_log_lost"
    /\ UNCHANGED <<df_processed, max_workday_gap, first_run, prepVars,
                   cwdVars, filtered_df, enriched_df, final_df, pwVars>>

\* ------------------------------------------------------------ merge_log_lost_and_same_apps

\* new_app_ends[-1] = end_time left out: the retained segment keeps its end
MutFoldIntoKeepsEnd(prev, seg) ==
    [prev EXCEPT !.app_durations = @ + seg.app_durations,
                 !.mouseClicks = @ + seg.mouseClicks,
                 !.keystrokes = @ + seg.keystrokes,
                 !.mic = @ \/ seg.mic,
                 !.mouseScroll = @ + seg.mouseScroll,
                 !.camera = @ \/ seg.camera]

\* the flags assigned instead of or-ed: new_mic[-1] = mic_active
MutFoldIntoOverwritesFlags(prev, seg) ==
    [prev EXCEPT !.app_durations = @ + seg.app_durations,
                 !.app_end_times = seg.app_end_times,
                 !.mouseClicks = @ + seg.mouseClicks,
                 !.keystrokes = @ + seg.keystrokes,
                 !.mic = seg.mic,
                 !.mouseScroll = @ + seg.mouseScroll,
                 !.camera = seg.camera]

\* new_durations[-1] += duration; new_app_ends[-1] = end_time; counters +=,
\* flags or-ed: the segment folded into the last retained one
FoldInto(prev, seg) ==
    [prev EXCEPT !.app_durations = @ + seg.app_durations,
                 !.app_end_times = seg.app_end_times,
                 !.mouseClicks = @ + seg.mouseClicks,
                 !.keystrokes = @ + seg.keystrokes,
                 !.mic = @ \/ seg.mic,
                 !.mouseScroll = @ + seg.mouseScroll,
                 !.camera = @ \/ seg.camera]

FoldLast(new, seg) ==
    [new EXCEPT ![Len(new)] = FoldInto(new[Len(new)], seg)]

\* the start compared with the end the previous segment had in the input
\* (app_ends[i - 1]) instead of new_app_ends[-1]; the model keeps the latter in
\* new only, so the test is left with the app
MutIsSameAppAnyStart(new, seg) ==
    /\ Len(new) > 0
    /\ seg.app = new[Len(new)].app

\* len(new_apps) > 0 and app_name == new_apps[-1] and new_app_ends[-1] == start_time
IsSameAppContiguous(new, seg) ==
    /\ Len(new) > 0
    /\ seg.app = new[Len(new)].app
    /\ new[Len(new)].app_end_times = seg.app_start_times

\* the continue of the 'Log Lost/Software Bug' branch left out: the folded
\* segment falls through to the second test and is appended as well
MutMergeSegmentNoContinue(new, seg) ==
    IF seg.app = LogLost
    THEN Append(IF Len(new) > 0 THEN FoldLast(new, seg) ELSE new, seg)
    ELSE IF IsSameAppContiguous(new, seg)
         THEN FoldLast(new, seg)
         ELSE Append(new, seg)

\* one turn of the while loop: new_* after segment seg
MergeSegment(new, seg) ==
    IF seg.app = LogLost
    THEN IF Len(new) > 0 THEN FoldLast(new, seg) ELSE new
    ELSE IF IsSameAppContiguous(new, seg)
         THEN FoldLast(new, seg)
         ELSE Append(new, seg)

\* while i < len(apps): ...
RECURSIVE MergeSegments(_, _)
MergeSegments(new, segs) ==
    IF segs = <<>> THEN new
    ELSE MergeSegments(MergeSegment(new, Head(segs)), Tail(segs))

\* new_row: the row's lists replaced, its id and bounds copied
MergeLogLostRow(row) ==
    [employeeId |-> row.employeeId,
     segs |-> MergeSegments(<<>>, row.segs),
     start_time |-> row.start_time,
     end_time |-> row.end_time]

\* processed_rows.insert(0, new_row) instead of append: the rows come out in
\* reverse order
MutMergeLogLostDfReversed(rows) ==
    [i \in 1..Len(rows) |-> MergeLogLostRow(rows[Len(rows) + 1 - i])]

\* merge_log_lost_and_same_apps(df)
MergeLogLostDf(rows) == [i \in 1..Len(rows) |-> MergeLogLostRow(rows[i])]

MergeLogLostAndSameApps ==
    /\ pc = "merge_log_lost"
    /\ working_day_df' = MergeLogLostDf(working_day_df)
    /\ pc' = "delete_working_days"
    /\ UNCHANGED <<df_processed, max_workday_gap, first_run, prepVars,
                   cwdVars, filtered_df, enriched_df, final_df, pwVars>>

\* ------------------------------------------------------------ delete_working_days

\* (df['start_time'] >= start_date) & (df['start_time'] <= end_date)
InDeletedRange(row) ==
    row.start_time >= START_DATE /\ row.start_time <= END_DATE

KeepsWorkingDay(row) == ~InDeletedRange(row)

DeleteWorkingDaysDf(rows) == SelectSeq(rows, KeepsWorkingDay)

DeleteWorkingDays ==
    /\ pc = "delete_working_days"
    /\ filtered_df' = DeleteWorkingDaysDf(working_day_df)
    /\ pc' = "add_workday_features"
    /\ UNCHANGED <<df_processed, max_workday_gap, first_run, prepVars,
                   cwdVars, working_day_df, enriched_df, final_df, pwVars>>

\* ------------------------------------------------------------ add_workday_features

\* sort_values(by=['base_employeeId', 'start_time']): order of two rows
RowBefore(a, b) ==
    \/ StrLess(ExtractBase(a.employeeId), ExtractBase(b.employeeId))
    \/ /\ ExtractBase(a.employeeId) = ExtractBase(b.employeeId)
       /\ a.start_time < b.start_time

\* a row put into an ascending sequence, after the rows it does not precede
RECURSIVE InsertRow(_, _)
InsertRow(sorted, r) ==
    IF sorted = <<>> THEN <<r>>
    ELSE IF RowBefore(r, Head(sorted)) THEN <<r>> \o sorted
    ELSE <<Head(sorted)>> \o InsertRow(Tail(sorted), r)

\* the two-key sort (stable: pandas sorts several keys with a stable lexsort)
RECURSIVE SortRows(_)
SortRows(rows) ==
    IF rows = <<>> THEN <<>>
    ELSE InsertRow(SortRows(SubSeq(rows, 1, Len(rows) - 1)), rows[Len(rows)])

\* (next_start_time - end_time) / 3600 with fillna(-1), for row i of a sequence
\* whose rows of one employee are adjacent and ascending; sameEmp tells whether
\* rows i and i + 1 are of one group
HoursUntilNext(rows, i, sameEmp) ==
    IF i < Len(rows) /\ sameEmp
    THEN rows[i + 1].start_time - rows[i].end_time
    ELSE NO_NEXT_HOURS * HOUR

\* the duration taken as the sum of the session's app_durations
MutWorkdayDurationSumOfSegments(row) ==
    SumSeq([k \in 1..Len(row.segs) |-> row.segs[k].app_durations])

\* (end_time - start_time) / 60
WorkdayDuration(row) == row.end_time - row.start_time

AddWorkdayFeaturesDf(rows) ==
    LET sorted == SortRows(rows)
    IN [i \in 1..Len(sorted) |->
           [employeeId |-> sorted[i].employeeId,
            segs |-> sorted[i].segs,
            start_time |-> sorted[i].start_time,
            end_time |-> sorted[i].end_time,
            hours_until_next_workday |->
                HoursUntilNext(sorted, i,
                    i < Len(sorted) /\ ExtractBase(sorted[i + 1].employeeId)
                                        = ExtractBase(sorted[i].employeeId)),
            workday_duration |-> WorkdayDuration(sorted[i])]]

AddWorkdayFeatures ==
    /\ pc = "add_workday_features"
    /\ enriched_df' = AddWorkdayFeaturesDf(filtered_df)
    /\ pc' = "process_workdays"
    /\ UNCHANGED <<df_processed, max_workday_gap, first_run, prepVars,
                   cwdVars, working_day_df, filtered_df, final_df, pwVars>>

\* ------------------------------------------------------------ process_workdays

\* the comparison made strict: a workday of exactly 45 minutes is deleted
MutKeepsWorkdayStrict(row) == row.workday_duration > MIN_WORKDAY_MINUTES * MINUTE

\* df['workday_duration'] >= 45
KeepsWorkday(row) == row.workday_duration >= MIN_WORKDAY_MINUTES * MINUTE

\* a row with the two temporary columns base_employeeId and unique_id
PwRow(row, uid) ==
    [employeeId |-> row.employeeId,
     segs |-> row.segs,
     start_time |-> row.start_time,
     end_time |-> row.end_time,
     hours_until_next_workday |-> row.hours_until_next_workday,
     workday_duration |-> row.workday_duration,
     base_employeeId |-> ExtractBase(row.employeeId),
     unique_id |-> uid]

\* the sort, the deletion of short workdays and df['unique_id'] = df.index
PrunedDf(rows) ==
    LET kept == SelectSeq(SortRows(rows), KeepsWorkday)
    IN [i \in 1..Len(kept) |-> PwRow(kept[i], i - 1)]

\* hours_until_next_workday of one employee's rows, ascending in start_time
RecalculateHours(rows) ==
    [i \in 1..Len(rows) |->
        [rows[i] EXCEPT !.hours_until_next_workday = HoursUntilNext(rows, i, TRUE)]]

RowsOf(rows, emp) == {rows[i] : i \in {j \in 1..Len(rows) : rows[j].base_employeeId = emp}}

\* groupby('base_employeeId').apply(recalculate_hours_until_next_workday): the
\* groups in key order, each sorted by start_time and recalculated
RECURSIVE RecalculatedDfs(_, _)
RecalculatedDfs(keys, rows) ==
    IF keys = <<>> THEN {<<>>}
    ELSE {RecalculateHours(g) \o t :
              g \in Orders(RowsOf(rows, Head(keys))),
              t \in RecalculatedDfs(Tail(keys), rows)}

\* Series.unique(): the values in order of first appearance
RECURSIVE Unique(_)
Unique(s) ==
    IF s = <<>> THEN <<>>
    ELSE LET front == Unique(SubSeq(s, 1, Len(s) - 1))
         IN IF \E i \in 1..Len(front) : front[i] = s[Len(s)]
            THEN front ELSE Append(front, s[Len(s)])

BaseIds(rows) == [i \in 1..Len(rows) |-> rows[i].base_employeeId]

\* df.index[df['unique_id'] == uid][0]
DfIndex(rows, uid) ==
    CHOOSE i \in 1..Len(rows) :
        /\ rows[i].unique_id = uid
        /\ \A j \in 1..(i - 1) : rows[j].unique_id # uid

\* the upper comparison made inclusive: a gap of exactly 3 h merges
MutShouldMergeInclusive(gap) == 0 <= gap /\ gap <= MERGE_GAP_HOURS * HOUR

\* the threshold taken from the default max_workday_gap of 2 h
MutShouldMergeTwoHours(gap) == 0 <= gap /\ gap < 2 * HOUR

\* if 0 <= actual_gap_hours < 3
ShouldMerge(gap) == 0 <= gap /\ gap < MERGE_GAP_HOURS * HOUR

\* the 'Pause' between the two workdays not inserted
MutMergedSegsNoPause(first, last) == first.segs \o last.segs

\* pause_end_time read from the 'end_time' column of the next workday
MutMergedSegsPauseToNextEnd(first, last) ==
    first.segs
        \o <<FillerSeg(Pause, first.end_time, last.end_time)>>
        \o last.segs

\* the lists of the first workday, a 'Pause' from its end to the start of the
\* next, then the lists of the next
MergedSegs(first, last) ==
    first.segs
        \o <<FillerSeg(Pause, first.end_time, last.start_time)>>
        \o last.segs

\* the pause between the two workdays left out of the sum
MutMergedDurationNoPause(rows, uids, total_pause_duration) ==
    SumSeq([i \in 1..Len(rows) |->
               IF rows[i].unique_id \in uids THEN rows[i].workday_duration ELSE 0])

\* df[df['unique_id'].isin(merge_unique_ids)]['workday_duration'].sum()
\*     + total_pause_duration
MergedDuration(rows, uids, total_pause_duration) ==
    SumSeq([i \in 1..Len(rows) |->
               IF rows[i].unique_id \in uids THEN rows[i].workday_duration ELSE 0])
        + total_pause_duration

\* df.at[first_row_index, 'end_time'] = ... left out: the merged row keeps the
\* first workday's end_time
MutMergedRowKeepsEnd(rows, first, last, total_pause_duration) ==
    [first EXCEPT
        !.workday_duration =
            MergedDuration(rows, {first.unique_id, last.unique_id},
                           total_pause_duration),
        !.hours_until_next_workday = last.hours_until_next_workday,
        !.segs = MergedSegs(first, last)]

\* the first row of df after the df.at[first_row_index, ...] assignments
MergedRow(rows, first, last, total_pause_duration) ==
    [first EXCEPT
        !.end_time = last.end_time,
        !.workday_duration =
            MergedDuration(rows, {first.unique_id, last.unique_id},
                           total_pause_duration),
        !.hours_until_next_workday = last.hours_until_next_workday,
        !.segs = MergedSegs(first, last)]

\* emp_df.loc[idx, 'end_time'] not refreshed: row idx keeps its old end_time
MutEmpDfAfterMergeStaleEnd(rows, i, merged) ==
    LET upd == [rows[i] EXCEPT
                   !.workday_duration = merged.workday_duration,
                   !.hours_until_next_workday = merged.hours_until_next_workday]
    IN SubSeq(rows, 1, i - 1) \o <<upd>> \o SubSeq(rows, i + 2, Len(rows))

\* emp_df.drop(idx + 1) not assigned back: row idx + 1 stays in emp_df
MutEmpDfAfterMergeKeepsNext(rows, i, merged) ==
    LET upd == [rows[i] EXCEPT
                   !.end_time = merged.end_time,
                   !.workday_duration = merged.workday_duration,
                   !.hours_until_next_workday = merged.hours_until_next_workday]
    IN SubSeq(rows, 1, i - 1) \o <<upd>> \o SubSeq(rows, i + 1, Len(rows))

\* emp_df after the merge: row idx takes the three values of df's merged row,
\* row idx + 1 is dropped
EmpDfAfterMerge(rows, i, merged) ==
    LET upd == [rows[i] EXCEPT
                   !.end_time = merged.end_time,
                   !.workday_duration = merged.workday_duration,
                   !.hours_until_next_workday = merged.hours_until_next_workday]
    IN SubSeq(rows, 1, i - 1) \o <<upd>> \o SubSeq(rows, i + 2, Len(rows))

\* lines 439-470: sort, prune, number and recalculate
PwPrune ==
    /\ pc = "process_workdays"
    /\ LET pruned == PrunedDf(enriched_df)
       IN /\ \E d \in RecalculatedDfs(SortedKeys({pruned[i].base_employeeId :
                                                     i \in 1..Len(pruned)}),
                                      pruned) : df' = d
    /\ employees' = Unique(BaseIds(df'))
    /\ indices_to_drop' = {}
    /\ pc' = "pw_employees"
    /\ UNCHANGED <<df_processed, max_workday_gap, first_run, prepVars,
                   cwdVars, mainVars, emp_df, idx, merge_log>>

\* for employee_id in df['base_employeeId'].unique(): emp_df and idx = 0
PwNextEmployee ==
    /\ pc = "pw_employees"
    /\ employees # <<>>
    /\ \E e \in Orders(RowsOf(df, Head(employees))) : emp_df' = e
    /\ idx' = 0
    /\ pc' = "pw_scan"
    /\ UNCHANGED <<df_processed, max_workday_gap, first_run, prepVars,
                   cwdVars, mainVars, df, employees, indices_to_drop,
                   merge_log>>

InScan == pc = "pw_scan" /\ idx < Len(emp_df) - 1

\* (next_row['start_time'] - current_row['end_time']) / 3600
ActualGap == emp_df[idx + 2].start_time - emp_df[idx + 1].end_time

\* idx incremented after a merge as well
MutIdxAfterMergeAdvance(i) == i + 1

\* "Do not increment idx to check for further merges"
IdxAfterMerge(i) == i

\* the if branch of the while loop: merge next_row into current_row
PwMerge ==
    /\ InScan
    /\ ShouldMerge(ActualGap)
    /\ LET fi == DfIndex(df, emp_df[idx + 1].unique_id)
           li == DfIndex(df, emp_df[idx + 2].unique_id)
           merged == MergedRow(df, df[fi], df[li], ActualGap)
       IN /\ df' = [df EXCEPT ![fi] = merged]
          /\ emp_df' = EmpDfAfterMerge(emp_df, idx + 1, merged)
          /\ indices_to_drop' = indices_to_drop \cup {df[li].unique_id}
          /\ merge_log' = Append(merge_log,
                                 [into |-> df[fi].unique_id,
                                  from |-> df[li].unique_id,
                                  gap |-> ActualGap])
    /\ idx' = IdxAfterMerge(idx)
    /\ UNCHANGED <<pc, df_processed, max_workday_gap, first_run, prepVars,
                   cwdVars, mainVars, employees>>

\* the else branch: idx += 1
PwAdvance ==
    /\ InScan
    /\ ~ShouldMerge(ActualGap)
    /\ idx' = idx + 1
    /\ UNCHANGED <<pc, df_processed, max_workday_gap, first_run, prepVars,
                   cwdVars, mainVars, df, employees, emp_df, indices_to_drop,
                   merge_log>>

\* df with hours_until_next_workday of the rows of emp taken from emp
WriteBackHours(rows, emp) ==
    [i \in 1..Len(rows) |->
        IF \E k \in 1..Len(emp) : emp[k].unique_id = rows[i].unique_id
        THEN [rows[i] EXCEPT !.hours_until_next_workday =
                 emp[CHOOSE k \in 1..Len(emp) :
                         emp[k].unique_id = rows[i].unique_id]
                     .hours_until_next_workday]
        ELSE rows[i]]

\* after the while loop: recalculate over emp_df and write back to df
PwEndEmployee ==
    /\ pc = "pw_scan"
    /\ ~(idx < Len(emp_df) - 1)
    /\ \E e \in Orders({emp_df[i] : i \in 1..Len(emp_df)}) :
           emp_df' = RecalculateHours(e)
    /\ df' = WriteBackHours(df, emp_df')
    /\ employees' = Tail(employees)
    /\ pc' = "pw_employees"
    /\ UNCHANGED <<df_processed, max_workday_gap, first_run, prepVars,
                   cwdVars, mainVars, idx, indices_to_drop, merge_log>>

\* a row without the temporary columns
OutRow(row) ==
    [employeeId |-> row.employeeId,
     segs |-> row.segs,
     start_time |-> row.start_time,
     end_time |-> row.end_time,
     hours_until_next_workday |-> row.hours_until_next_workday,
     workday_duration |-> row.workday_duration]

NotDropped(rows, dropped) ==
    SelectSeq(rows, LAMBDA r : r.unique_id \notin dropped)

\* df[~df['unique_id'].isin(indices_to_drop)] without the temporary columns
ReturnedDf(rows, dropped) ==
    LET left == NotDropped(rows, dropped)
    IN [i \in 1..Len(left) |-> OutRow(left[i])]

PwReturn ==
    /\ pc = "pw_employees"
    /\ employees = <<>>
    /\ final_df' = ReturnedDf(df, indices_to_drop)
    /\ pc' = "done"
    /\ UNCHANGED <<df_processed, max_workday_gap, first_run, prepVars,
                   cwdVars, working_day_df, filtered_df, enriched_df, pwVars>>

\* ------------------------------------------------------------ specification

Init ==
    /\ pc = "cwd_groups"
    /\ \/ /\ df_processed \in Batches
          /\ max_workday_gap \in MaxWorkdayGaps
       \/ /\ df_processed = Scenario
          /\ max_workday_gap = 2 * HOUR
    /\ first_run = <<>>
    /\ prepared_df = <<>>
    /\ merged_df = <<>>
    /\ groups = SortedKeys({r.employeeId : r \in df_processed})
    /\ employee_id = <<>>
    /\ group = <<>>
    /\ daily = <<>>
    /\ day_counter = 1
    /\ last_end = <<>>
    /\ start_time_of_workday = <<>>
    /\ result = <<>>
    /\ working_day_df = <<>>
    /\ filtered_df = <<>>
    /\ enriched_df = <<>>
    /\ df = <<>>
    /\ employees = <<>>
    /\ emp_df = <<>>
    /\ idx = 0
    /\ indices_to_drop = {}
    /\ merge_log = <<>>
    /\ final_df = <<>>

Next ==
    \/ CwdNextGroup
    \/ CwdFirstRow
    \/ CwdNewWorkday
    \/ CwdLogLost
    \/ CwdPause
    \/ CwdDirect
    \/ CwdEndGroup
    \/ CwdReturn
    \/ MergeLogLostAndSameApps
    \/ DeleteWorkingDays
    \/ AddWorkdayFeatures
    \/ PwPrune
    \/ PwNextEmployee
    \/ PwMerge
    \/ PwAdvance
    \/ PwEndEmployee
    \/ PwReturn

Spec == Init /\ [][Next]_vars

\* merge_log_lost_and_same_apps on its own, given any one-row frame whose
\* session has up to MaxSegs segments drawn from SegPool

SegPool ==
    {[app |-> a,
      app_durations |-> en - st,
      app_start_times |-> st,
      app_end_times |-> en,
      mouseClicks |-> 1,
      keystrokes |-> 0,
      mic |-> (a = "A"),
      mouseScroll |-> 2,
      camera |-> FALSE] : a \in {"A", "B", LogLost}, st \in {0, 1}, en \in {1, 2}}

SegLists == UNION {[1..n -> SegPool] : n \in 1..MaxSegs}

InitReconcile ==
    /\ pc = "merge_log_lost"
    /\ \E segs \in SegLists :
           result = <<WorkdayRow(Emp1, 1, segs, segs[1].app_start_times,
                                 segs[Len(segs)].app_end_times)>>
    /\ working_day_df = result
    /\ df_processed = {}
    /\ max_workday_gap = 2 * HOUR
    /\ first_run = <<>>
    /\ prepared_df = <<>>
    /\ merged_df = <<>>
    /\ groups = <<>>
    /\ employee_id = Emp1
    /\ group = <<>>
    /\ daily = <<>>
    /\ day_counter = 1
    /\ last_end = <<>>
    /\ start_time_of_workday = <<>>
    /\ filtered_df = <<>>
    /\ enriched_df = <<>>
    /\ df = <<>>
    /\ employees = <<>>
    /\ emp_df = <<>>
    /\ idx = 0
    /\ indices_to_drop = {}
    /\ merge_log = <<>>
    /\ final_df = <<>>

NextReconcile == MergeLogLostAndSameApps

SpecReconcile == InitReconcile /\ [][NextReconcile]_vars

\* add_workday_features and process_workdays on their own, given any frame of
\* up to MaxSessions sessions drawn from SessionPool

\* a session of one segment, as create_working_day writes it
Session(emp, n, app, st, en) ==
    WorkdayRow(emp, n,
               <<EventSeg(Row(emp, app, st, en, n, 0, FALSE, 0, FALSE))>>,
               st, en)

\* Sessions of employee e_1 with one start_time in common (60, 45 and 30 min
\* long), one beginning where the first ends, one 2 h after that and exactly
\* 3 h after the first's end; one session of employee e_1_1.
SessionPool ==
    {Session(Emp1, 1, "A", 36000, 39600),
     Session(Emp1, 2, "B", 36000, 38700),
     Session(Emp1, 3, "C", 36000, 37800),
     Session(Emp1, 4, "D", 39600, 43200),
     Session(Emp1, 5, "E", 50400, 54000),
     Session(Emp2, 1, "F", 36000, 39600)}

\* the frames: sessions of the pool, no session twice, in any row order
SessionFrames ==
    {f \in UNION {[1..n -> SessionPool] : n \in 1..MaxSessions} :
        \A i, j \in 1..Len(f) : i # j => f[i] # f[j]}

InitProcess ==
    /\ pc = "add_workday_features"
    /\ filtered_df \in SessionFrames
    /\ working_day_df = filtered_df
    /\ df_processed = {}
    /\ max_workday_gap = 2 * HOUR
    /\ first_run = <<>>
    /\ prepared_df = <<>>
    /\ merged_df = <<>>
    /\ groups = <<>>
    /\ employee_id = <<>>
    /\ group = <<>>
    /\ daily = <<>>
    /\ day_counter = 1
    /\ last_end = <<>>
    /\ start_time_of_workday = <<>>
    /\ result = <<>>
    /\ enriched_df = <<>>
    /\ df = <<>>
    /\ employees = <<>>
    /\ emp_df = <<>>
    /\ idx = 0
    /\ indices_to_drop = {}
    /\ merge_log = <<>>
    /\ final_df = <<>>

NextProcess ==
    \/ AddWorkdayFeatures
    \/ PwPrune
    \/ PwNextEmployee
    \/ PwMerge
    \/ PwAdvance
    \/ PwEndEmployee
    \/ PwReturn

SpecProcess == InitProcess /\ [][NextProcess]_vars

\* process_workdays is one sequential call: once the while loop of an employee
\* is entered the interpreter executes its next statement, so an iteration or
\* the exit that can be taken is taken
SpecProcessFair ==
    SpecProcess /\ WF_vars(PwMerge \/ PwAdvance \/ PwEndEmployee)

\* the pipeline on batches that hold a row with end_time < start_time

\* rows that end before they start (by 15 min and by 1 s)
MalformedRows ==
    {Row(Emp1, "A", 36900, 36000, 1, 1, FALSE, 0, FALSE),
     Row(Emp2, "B", 39601, 39600, 0, 2, FALSE, 1, FALSE)}

MalformedBatches ==
    {S \in SUBSET (EventPool \cup MalformedRows) :
        /\ 1 <= Cardinality(S)
        /\ Cardinality(S) <= MaxEvents
        /\ S \cap MalformedRows # {}}

InitMalformed ==
    /\ pc = "cwd_groups"
    /\ df_processed \in MalformedBatches
    /\ max_workday_gap \in MaxWorkdayGaps
    /\ first_run = <<>>
    /\ prepared_df = <<>>
    /\ merged_df = <<>>
    /\ groups = SortedKeys({r.employeeId : r \in df_processed})
    /\ employee_id = <<>>
    /\ group = <<>>
    /\ daily = <<>>
    /\ day_counter = 1
    /\ last_end = <<>>
    /\ start_time_of_workday = <<>>
    /\ result = <<>>
    /\ working_day_df = <<>>
    /\ filtered_df = <<>>
    /\ enriched_df = <<>>
    /\ df = <<>>
    /\ employees = <<>>
    /\ emp_df = <<>>
    /\ idx = 0
    /\ indices_to_drop = {}
    /\ merge_log = <<>>
    /\ final_df = <<>>

SpecMalformed == InitMalformed /\ [][Next]_vars

\* the pipeline run on a batch of several employees and then once more on the
\* rows of one of them alone

\* the sessions of one employee in a frame, in the frame's order
SessionsOf(rows, emp) ==
    SelectSeq(rows, LAMBDA r : ExtractBase(r.employeeId) = emp)

\* what the run returned for employee emp, stage by stage
ReturnedFor(emp) ==
    [employee |-> emp,
     create_working_day |-> SessionsOf(result, emp),
     merge_log_lost_and_same_apps |-> SessionsOf(working_day_df, emp),
     delete_working_days |-> SessionsOf(filtered_df, emp),
     add_workday_features |-> SessionsOf(enriched_df, emp),
     process_workdays |-> SessionsOf(final_df, emp)]

\* main_process.py run again, with df_processed cut down to one employee
Rerun ==
    /\ pc = "done"
    /\ first_run = <<>>
    /\ \E x \in {r.employeeId : r \in df_processed} :
           /\ \E r \in df_processed : r.employeeId # x
           /\ first_run' = <<ReturnedFor(x)>>
           /\ df_processed' = {r \in df_processed : r.employeeId = x}
    /\ groups' = SortedKeys({r.employeeId : r \in df_processed'})
    /\ pc' = "cwd_groups"
    /\ employee_id' = <<>>
    /\ group' = <<>>
    /\ daily' = <<>>
    /\ day_counter' = 1
    /\ last_end' = <<>>
    /\ start_time_of_workday' = <<>>
    /\ result' = <<>>
    /\ working_day_df' = <<>>
    /\ filtered_df' = <<>>
    /\ enriched_df' = <<>>
    /\ df' = <<>>
    /\ employees' = <<>>
    /\ emp_df' = <<>>
    /\ idx' = 0
    /\ indices_to_drop' = {}
    /\ merge_log' = <<>>
    /\ final_df' = <<>>
    /\ UNCHANGED <<max_workday_gap, prepVars>>

NextIndependence == Next \/ Rerun

SpecIndependence == Init /\ [][NextIndependence]_vars

\* merge_consecutive_rows on its own, given any frame of up to MaxRawEvents
\* rows drawn from RawPool

\* Three rows of e_1 on app A that follow one another without a gap, one that
\* follows with a gap of 1 s, a row on app B and a row of no length that start
\* with the second, and two rows of e_1_1 that continue the first of e_1.
RawPool ==
    {Row(Emp1, "A", 36000, 36600, 1, 2, FALSE, 3, FALSE),
     Row(Emp1, "A", 36600, 37200, 4, 0, TRUE, 1, FALSE),
     Row(Emp1, "A", 37200, 37800, 0, 1, FALSE, 0, TRUE),
     Row(Emp1, "A", 37201, 37800, 2, 0, FALSE, 1, FALSE),
     Row(Emp1, "B", 36600, 37200, 2, 2, FALSE, 2, FALSE),
     Row(Emp1, "A", 36600, 36600, 1, 1, FALSE, 0, FALSE),
     Row(Emp2, "A", 36600, 37200, 5, 5, FALSE, 5, TRUE),
     Row(Emp2, "A", 37200, 37800, 0, 3, TRUE, 0, FALSE)}

\* the frames: rows of the pool, no row twice, in any order
RawFrames ==
    {f \in UNION {[1..n -> RawPool] : n \in 1..MaxRawEvents} :
        \A i, j \in 1..Len(f) : i # j => f[i] # f[j]}

InitNormalize ==
    /\ pc = "merge_consecutive_rows"
    /\ prepared_df \in RawFrames
    /\ merged_df = <<>>
    /\ df_processed = {}
    /\ max_workday_gap = 2 * HOUR
    /\ first_run = <<>>
    /\ groups = <<>>
    /\ employee_id = <<>>
    /\ group = <<>>
    /\ daily = <<>>
    /\ day_counter = 1
    /\ last_end = <<>>
    /\ start_time_of_workday = <<>>
    /\ result = <<>>
    /\ working_day_df = <<>>
    /\ filtered_df = <<>>
    /\ enriched_df = <<>>
    /\ df = <<>>
    /\ employees = <<>>
    /\ emp_df = <<>>
    /\ idx = 0
    /\ indices_to_drop = {}
    /\ merge_log = <<>>
    /\ final_df = <<>>

NextNormalize == MergeConsecutiveRows

SpecNormalize == InitNormalize /\ [][NextNormalize]_vars

\* ------------------------------------------------------------ properties

\* the row loop of create_working_day is at a row that has a predecessor
AtLaterRow == AtRow /\ last_end # <<>>

\* next.start - lastEventEnd for that row
RowGap == Head(group).start_time - last_end[1]

ZeroMetrics(seg) ==
    /\ seg.mouseClicks = 0
    /\ seg.keystrokes = 0
    /\ seg.mouseScroll = 0
    /\ seg.mic = FALSE
    /\ seg.camera = FALSE

\* seg is the segment of input row r
IsSegOf(seg, r) ==
    /\ seg.app = r.app
    /\ seg.app_start_times = r.start_time
    /\ seg.app_end_times = r.end_time
    /\ seg.app_durations = r.end_time - r.start_time
    /\ seg.mouseClicks = r.mouseClicks
    /\ seg.keystrokes = r.keystrokes
    /\ seg.mouseScroll = r.mouseScroll
    /\ seg.mic = r.mic
    /\ seg.camera = r.camera

\* seg is a zero-metric filler with the given label spanning [from, to]
IsFiller(seg, label, from, to) ==
    /\ seg.app = label
    /\ seg.app_start_times = from
    /\ seg.app_end_times = to
    /\ seg.app_durations = to - from
    /\ ZeroMetrics(seg)

\* this step appends a filler with the given label for the gap, then the row
AppendsFiller(label) ==
    /\ Len(daily') = Len(daily) + 2
    /\ SubSeq(daily', 1, Len(daily)) = daily
    /\ IsFiller(daily'[Len(daily) + 1], label, last_end[1], Head(group).start_time)
    /\ IsSegOf(daily'[Len(daily) + 2], Head(group))
    /\ result' = result

\* this step appends the row alone
AppendsRowOnly ==
    /\ Len(daily') = Len(daily) + 1
    /\ SubSeq(daily', 1, Len(daily)) = daily
    /\ IsSegOf(daily'[Len(daily) + 1], Head(group))
    /\ result' = result

\* this step flushes the open session and opens the next one with the row
FlushesAndRestarts ==
    /\ Len(result') = Len(result) + 1
    /\ SubSeq(result', 1, Len(result)) = result
    /\ result'[Len(result')].segs = daily
    /\ result'[Len(result')].end_time = last_end[1]
    /\ Len(daily') = 1
    /\ IsSegOf(daily'[1], Head(group))
    /\ day_counter' = day_counter + 1

\* C1: in create_working_day, a row whose gap to the previous row's end is at
\* least max_workday_gap (equality included) flushes the open session and
\* becomes the only segment of a new one; no filler is made for that gap.
C1_GapAtLeastMaxStartsNewWorkday ==
    [][(AtLaterRow /\ RowGap >= max_workday_gap) => FlushesAndRestarts]_vars

\* a session was just flushed on a gap exactly equal to a positive max_workday_gap
C1_Witness ==
    /\ pc = "cwd_rows"
    /\ max_workday_gap > 0
    /\ day_counter > 1
    /\ Len(daily) = 1
    /\ result # <<>>
    /\ ExtractBase(result[Len(result)].employeeId) = employee_id
    /\ daily[1].app_start_times - result[Len(result)].end_time = max_workday_gap

\* C2 as stated: whenever 0 < gap <= 20 s, exactly one 'Log Lost/Software Bug'
\* filler spanning the gap, with zero metrics, is appended right before the
\* row's segment (and no 'Pause').
C2_Original ==
    [][(AtLaterRow /\ 0 < RowGap /\ RowGap <= 20) => AppendsFiller(LogLost)]_vars

\* C2 amended: whenever 0 < gap <= 20 s and gap < max_workday_gap, exactly one
\* 'Log Lost/Software Bug' filler spanning the gap, with zero metrics, is
\* appended right before the row's segment (and no 'Pause').
C2_LogLostFillerBelowMaxGap ==
    [][(AtLaterRow /\ 0 < RowGap /\ RowGap <= 20 /\ RowGap < max_workday_gap)
          => AppendsFiller(LogLost)]_vars

\* a 'Log Lost/Software Bug' filler of exactly 20 s precedes the last segment
C2_Witness ==
    /\ pc = "cwd_rows"
    /\ Len(daily) >= 3
    /\ daily[Len(daily) - 1].app = LogLost
    /\ daily[Len(daily) - 1].app_durations = 20
    /\ daily[Len(daily) - 1].app_start_times = daily[Len(daily) - 2].app_end_times
    /\ daily[Len(daily) - 1].app_end_times = daily[Len(daily)].app_start_times

\* C3: a zero-metric 'Pause' filler spanning the gap is appended before the
\* row's segment if and only if 20 s < gap < max_workday_gap; when gap <= 0 the
\* row's segment is appended with no filler of any kind before it (to the open
\* session, or as the first segment of a new one when max_workday_gap <= gap).
C3_PauseIffBetweenThresholds ==
    [][AtLaterRow =>
          /\ AppendsFiller(Pause) <=> (20 < RowGap /\ RowGap < max_workday_gap)
          /\ RowGap <= 0 => (AppendsRowOnly \/ FlushesAndRestarts)
          /\ RowGap <= 0 /\ RowGap < max_workday_gap => AppendsRowOnly]_vars

\* a 'Pause' filler of 21 s precedes the last segment, and the next row of the
\* input has a gap <= 0
C3_Witness ==
    /\ pc = "cwd_rows"
    /\ Len(daily) >= 3
    /\ daily[Len(daily) - 1].app = Pause
    /\ daily[Len(daily) - 1].app_durations = 21
    /\ group # <<>>
    /\ Head(group).start_time <= last_end[1]

\* ------------------------------------------------------------ properties of process_workdays

\* the rows process_workdays starts its merge loop with, as numbered by unique_id
Original(uid) == PrunedDf(enriched_df)[uid + 1]

\* the merges that extended the row numbered uid, in order
MergesInto(uid) == SelectSeq(merge_log, LAMBDA m : m.into = uid)

\* the row of df that carries the session id of an output row
DfRowOf(out) == df[CHOOSE i \in 1..Len(df) : df[i].employeeId = out.employeeId]

\* the position, among the segments of a merged row, of the bridging 'Pause' of
\* its j-th merge: after the first session's segments and, for each earlier
\* merge, one 'Pause' and the absorbed session's segments
RECURSIVE BridgePosition(_, _, _)
BridgePosition(uid, ms, j) ==
    IF j = 1 THEN Len(Original(uid).segs) + 1
    ELSE BridgePosition(uid, ms, j - 1) + Len(Original(ms[j - 1].from).segs) + 1

\* C4: every output session made by merging k >= 2 original sessions (also in
\* several successive steps) has workday_duration equal to the sum of the k
\* originals' workday_duration plus the durations of the k - 1 bridging
\* 'Pause' segments inserted between them.
C4_MergedDurationIsSumPlusPauses ==
    pc = "done" =>
        \A n \in 1..Len(final_df) :
            LET uid == DfRowOf(final_df[n]).unique_id
                ms == MergesInto(uid)
            IN Len(ms) >= 1 =>
                /\ \A j \in 1..Len(ms) :
                       final_df[n].segs[BridgePosition(uid, ms, j)].app = Pause
                /\ final_df[n].workday_duration =
                       Original(uid).workday_duration
                       + SumSeq([j \in 1..Len(ms) |->
                                    Original(ms[j].from).workday_duration])
                       + SumSeq([j \in 1..Len(ms) |->
                                    final_df[n].segs[BridgePosition(uid, ms, j)]
                                        .app_durations])

\* an output session made of three original sessions, with bridging pauses of
\* different positive lengths
C4_Witness ==
    /\ pc = "done"
    /\ \E n \in 1..Len(final_df) :
           LET ms == MergesInto(DfRowOf(final_df[n]).unique_id)
           IN /\ Len(ms) = 2
              /\ ms[1].gap > 0
              /\ ms[2].gap > 0
              /\ ms[2].gap # ms[1].gap

\* the output rows of one employee
OutputOf(emp) ==
    {n \in 1..Len(final_df) : ExtractBase(final_df[n].employeeId) = emp}

OutputEmployees == {ExtractBase(final_df[n].employeeId) : n \in 1..Len(final_df)}

\* m is the session that follows n among the employee's output sessions
IsNextOutput(n, m) ==
    /\ m \in OutputOf(ExtractBase(final_df[n].employeeId))
    /\ final_df[m].start_time > final_df[n].start_time
    /\ \A o \in OutputOf(ExtractBase(final_df[n].employeeId)) :
           final_df[o].start_time > final_df[n].start_time
               => final_df[o].start_time >= final_df[m].start_time

\* C5: in the output of process_workdays the sessions of an employee have
\* pairwise different start_time (strictly increasing once sorted); each but
\* the last has hours_until_next_workday = next start_time - its own
\* (post-merge) end_time, and the last has -1.
C5_HoursUntilNextConsistent ==
    pc = "done" =>
        \A n \in 1..Len(final_df) :
            LET mine == OutputOf(ExtractBase(final_df[n].employeeId))
            IN /\ \A m \in mine \ {n} :
                      final_df[m].start_time # final_df[n].start_time
               /\ \A m \in mine :
                      IsNextOutput(n, m) =>
                          final_df[n].hours_until_next_workday =
                              final_df[m].start_time - final_df[n].end_time
               /\ (\A m \in mine : final_df[m].start_time <= final_df[n].start_time)
                      => final_df[n].hours_until_next_workday = -1 * HOUR

\* an output session that absorbed another one and is followed by a third
C5_Witness ==
    /\ pc = "done"
    /\ \E n, m \in 1..Len(final_df) :
           /\ IsNextOutput(n, m)
           /\ Len(MergesInto(DfRowOf(final_df[n]).unique_id)) >= 1
           /\ final_df[n].end_time > Original(DfRowOf(final_df[n]).unique_id).end_time

\* C6: when the merge loop has finished, no two chronologically adjacent
\* surviving sessions of an employee have 0 <= next start - current end < 3 h
\* (a chain of sessions each within 3 h of the previous end has collapsed
\* into one).
C6_NoMergeablePairLeft ==
    pc = "done" =>
        \A n, m \in 1..Len(final_df) :
            IsNextOutput(n, m) =>
                ~(/\ 0 <= final_df[m].start_time - final_df[n].end_time
                  /\ final_df[m].start_time - final_df[n].end_time < 3 * HOUR)

\* three sessions, the third within 3 h of the second's end but not of the
\* first's, have become one
C6_Witness ==
    /\ pc = "done"
    /\ \E n \in 1..Len(final_df) :
           LET uid == DfRowOf(final_df[n]).unique_id
               ms == MergesInto(uid)
           IN /\ Len(ms) = 2
              /\ Original(ms[2].from).start_time - Original(uid).end_time >= 3 * HOUR

\* the scan drops the row after current_row in this step
MergesNext ==
    /\ Len(emp_df') = Len(emp_df) - 1
    /\ emp_df[idx + 2].unique_id \in indices_to_drop'
    /\ emp_df[idx + 1].unique_id \notin indices_to_drop'
    /\ emp_df'[idx + 1].unique_id = emp_df[idx + 1].unique_id
    /\ emp_df'[idx + 1].end_time = emp_df[idx + 2].end_time

\* C7: two adjacent sessions of one employee are merged if and only if
\* 0 <= next start - current end < 3 h (exactly 3 h: not merged; exactly 0:
\* merged); the two sessions of a merge are always of the same employee.
C7_MergeIffGapBelowThreeHours ==
    [][InScan =>
          /\ MergesNext <=>
                 (/\ 0 <= emp_df[idx + 2].start_time - emp_df[idx + 1].end_time
                  /\ emp_df[idx + 2].start_time - emp_df[idx + 1].end_time < 3 * HOUR)
          /\ ExtractBase(emp_df[idx + 1].employeeId)
                 = ExtractBase(emp_df[idx + 2].employeeId)
          /\ indices_to_drop' \subseteq indices_to_drop \cup {emp_df[idx + 2].unique_id}]_vars

\* a merge over a gap of exactly 0 has been made, and a pair exactly 3 h apart
\* is being left unmerged, while another employee has a session in the data
C7_Witness ==
    /\ InScan
    /\ emp_df[idx + 2].start_time - emp_df[idx + 1].end_time = 3 * HOUR
    /\ \E j \in 1..Len(merge_log) : merge_log[j].gap = 0

\* C8: every session that enters process_workdays with workday_duration below
\* 45 min is absent from the output and none of its segments is in any output
\* session of its employee, even when a neighbour is less than 3 h away; every
\* session entering with at least 45 min (exactly 45 included) is kept: all of
\* its segments are in an output session of its employee.
C8_PruneBeforeMerge ==
    pc = "done" =>
        \A i \in 1..Len(enriched_df) :
            LET row == enriched_df[i]
                outs == OutputOf(ExtractBase(row.employeeId))
            IN IF row.workday_duration < 45 * MINUTE
               THEN /\ \A n \in 1..Len(final_df) :
                           final_df[n].employeeId # row.employeeId
                    /\ \A n \in outs : \A k \in 1..Len(final_df[n].segs) :
                           \A j \in 1..Len(row.segs) :
                               final_df[n].segs[k] # row.segs[j]
               ELSE \E n \in outs :
                        /\ final_df[n].start_time <= row.start_time
                        /\ row.end_time <= final_df[n].end_time
                        /\ \A j \in 1..Len(row.segs) :
                               \E k \in 1..Len(final_df[n].segs) :
                                   final_df[n].segs[k] = row.segs[j]

\* a session shorter than 45 min was dropped although it lay between two
\* sessions of its employee that were then merged across it, and a session of
\* exactly 45 min was kept
C8_Witness ==
    /\ pc = "done"
    /\ \E i \in 1..Len(enriched_df) : \E n \in 1..Len(final_df) :
           /\ enriched_df[i].workday_duration < 45 * MINUTE
           /\ ExtractBase(enriched_df[i].employeeId)
                  = ExtractBase(final_df[n].employeeId)
           /\ final_df[n].start_time < enriched_df[i].start_time
           /\ enriched_df[i].end_time < final_df[n].end_time
    /\ \E i \in 1..Len(enriched_df) :
           enriched_df[i].workday_duration = 45 * MINUTE

\* ------------------------------------------------------------ properties of merge_log_lost_and_same_apps

\* C9: merge_log_lost_and_same_apps applied to its own output returns that
\* output unchanged (segments, bounds, durations and metrics).
C9_ReconcileIdempotent ==
    pc = "delete_working_days" =>
        MergeLogLostDf(working_day_df) = working_day_df

\* the first pass folded a 'Log Lost/Software Bug' segment and then the
\* same-app segment behind it: three segments became one
C9_Witness ==
    /\ pc = "delete_working_days"
    /\ Len(result[1].segs) = 3
    /\ result[1].segs[2].app = LogLost
    /\ result[1].segs[2].app_durations > 0
    /\ Len(working_day_df[1].segs) = 1

\* ------------------------------------------------------------ the end-to-end scenario

ScenarioRun == df_processed = Scenario /\ max_workday_gap = 2 * HOUR

Reconciled ==
    pc \in {"delete_working_days", "add_workday_features", "process_workdays",
            "pw_employees", "pw_scan", "done"}

Annotated == pc \in {"process_workdays", "pw_employees", "pw_scan", "done"}

SegIs(seg, app, from, to) ==
    /\ seg.app = app
    /\ seg.app_start_times = from
    /\ seg.app_end_times = to
    /\ seg.app_durations = to - from

\* C10: with max_workday_gap = 2 h and the four rows of e_1 (A 09:00-09:30,
\* A 09:30:05-09:45, B 09:46-10:00, A 13:00-13:30), segmentation and
\* reconciliation give two sessions, the first [A 09:00-09:45, Pause
\* 09:45-09:46, B 09:46-10:00], lasting 60 min with 3 h until the next, the
\* second [A 13:00-13:30], lasting 30 min; process_workdays returns the first
\* alone, unmerged.
C10_EndToEndScenario ==
    ScenarioRun =>
        /\ Reconciled =>
               /\ Len(working_day_df) = 2
               /\ working_day_df[1].employeeId = <<"e", "_", "1", "_", "1">>
               /\ Len(working_day_df[1].segs) = 3
               /\ SegIs(working_day_df[1].segs[1], "A", 32400, 35100)
               /\ SegIs(working_day_df[1].segs[2], Pause, 35100, 35160)
               /\ SegIs(working_day_df[1].segs[3], "B", 35160, 36000)
               /\ working_day_df[2].employeeId = <<"e", "_", "1", "_", "2">>
               /\ Len(working_day_df[2].segs) = 1
               /\ SegIs(working_day_df[2].segs[1], "A", 46800, 48600)
        /\ Annotated =>
               /\ Len(enriched_df) = 2
               /\ enriched_df[1].employeeId = working_day_df[1].employeeId
               /\ enriched_df[1].workday_duration = 60 * MINUTE
               /\ enriched_df[1].hours_until_next_workday = 3 * HOUR
               /\ enriched_df[2].workday_duration = 30 * MINUTE
        /\ pc = "done" =>
               /\ Len(final_df) = 1
               /\ final_df[1].employeeId = working_day_df[1].employeeId
               /\ final_df[1].segs = working_day_df[1].segs
               /\ final_df[1].workday_duration = 60 * MINUTE
               /\ merge_log = <<>>

\* the scenario has run to the end of process_workdays
C10_Witness == ScenarioRun /\ pc = "done" /\ Len(final_df) = 1

\* ------------------------------------------------------------ sessions with one start_time

\* rows i and j of enriched_df are two sessions of one employee that begin at
\* the same instant and both last at least 45 min
SameStartPair(i, j) ==
    /\ i # j
    /\ ExtractBase(enriched_df[i].employeeId) = ExtractBase(enriched_df[j].employeeId)
    /\ enriched_df[i].start_time = enriched_df[j].start_time
    /\ enriched_df[i].workday_duration >= 45 * MINUTE
    /\ enriched_df[j].workday_duration >= 45 * MINUTE

\* the segments of row are among those of out
HasSegsOf(out, row) ==
    \A j \in 1..Len(row.segs) : \E k \in 1..Len(out.segs) : out.segs[k] = row.segs[j]

\* C11 as stated: two sessions of one employee with identical start_time, both
\* of at least 45 min, come out of process_workdays merged into one session.
C11_IdenticalStartsMerged ==
    pc = "done" =>
        \A i, j \in 1..Len(enriched_df) :
            SameStartPair(i, j) =>
                \E n \in 1..Len(final_df) :
                    /\ HasSegsOf(final_df[n], enriched_df[i])
                    /\ HasSegsOf(final_df[n], enriched_df[j])
\* ------------------------------------------------------------ error outcomes

\* C12 as stated: a session whose first segment is 'Log Lost/Software Bug'
\* does not come out of merge_log_lost_and_same_apps as a result; the call
\* ends in an error.
C12_LeadingLogLostIsError ==
    (result # <<>> /\ result[1].segs # <<>> /\ result[1].segs[1].app = LogLost)
        => pc # "delete_working_days"

\* C13 as stated: a batch with a row whose end_time is before its start_time
\* yields no session at any stage.
C13_MalformedBatchRejected ==
    (\E r \in df_processed : r.end_time < r.start_time) =>
        /\ result = <<>>
        /\ working_day_df = <<>>
        /\ final_df = <<>>
\* ------------------------------------------------------------ properties of delete_working_days

DAY == 24 * HOUR

\* start_time is on a calendar date from 2024-09-05 to 2024-09-13, at any time
\* of day
OnRejectedDate(row) ==
    START_DATE <= row.start_time /\ row.start_time < END_DATE + DAY

Filtered ==
    pc \in {"add_workday_features", "process_workdays", "pw_employees",
            "pw_scan", "done"}

\* C14 as stated: delete_working_days drops exactly the sessions that start on
\* a date of the interval (the whole last date included) and keeps the others
\* in order, and hours_until_next_workday is computed over the kept ones.
C14_DropsWholeInterval ==
    /\ Filtered =>
           filtered_df = SelectSeq(working_day_df, LAMBDA r : ~OnRejectedDate(r))
    /\ Annotated =>
           /\ Len(enriched_df) = Len(filtered_df)
           /\ \A i \in 1..Len(enriched_df) :
                  /\ ~OnRejectedDate(enriched_df[i])
                  /\ enriched_df[i].hours_until_next_workday # -1 * HOUR =>
                         \E j \in 1..Len(filtered_df) :
                             filtered_df[j].start_time - enriched_df[i].end_time
                                 = enriched_df[i].hours_until_next_workday
\* ------------------------------------------------------------ independence of the employees

\* the segments of a frame that are not fillers, in order: the input rows in
\* the order sort_values('start_time') gave them
RECURSIVE EventsOf(_)
EventsOf(rows) ==
    IF rows = <<>> THEN <<>>
    ELSE SelectSeq(Head(rows).segs, LAMBDA g : g.app \notin {LogLost, Pause})
             \o EventsOf(Tail(rows))

SecondRunDone == pc = "done" /\ first_run # <<>>

\* C15: a run on a batch and a run on the rows of one of its employees alone
\* return the same sessions for that employee at every stage (ids, segments,
\* bounds, workday_duration, hours_until_next_workday), the sort having put
\* rows of equal start_time in the same order in both.  Two batches that agree
\* on an employee's rows both agree with the batch of those rows alone.
C15_PerEmployeeIndependence ==
    SecondRunDone =>
        LET was == first_run[1]
        IN EventsOf(result) = EventsOf(was.create_working_day) =>
               /\ SessionsOf(result, was.employee) = was.create_working_day
               /\ SessionsOf(working_day_df, was.employee)
                      = was.merge_log_lost_and_same_apps
               /\ SessionsOf(filtered_df, was.employee) = was.delete_working_days
               /\ SessionsOf(enriched_df, was.employee) = was.add_workday_features
               /\ SessionsOf(final_df, was.employee) = was.process_workdays

\* the employee handled second in the first run had two sessions, which
\* process_workdays merged, and the second run has sorted the rows alike
C15_Witness ==
    /\ SecondRunDone
    /\ first_run[1].employee = Emp2
    /\ Len(first_run[1].create_working_day) = 2
    /\ Len(first_run[1].process_workdays) = 1
    /\ EventsOf(result) = EventsOf(first_run[1].create_working_day)
    /\ merge_log # <<>>
\* ------------------------------------------------------------ invariants of the sessions

\* the sessions create_working_day has appended for employee emp are numbered
\* emp_1, emp_2, ... in the order they were appended
NumberedInOrder(emp) ==
    LET mine == SessionsOf(result, emp)
    IN \A k \in 1..Len(mine) : mine[k].employeeId = FormatId(emp, k)

UniqueIds ==
    \A i, j \in 1..Len(result) :
        i # j => result[i].employeeId # result[j].employeeId

InputEmployees == {r.employeeId : r \in df_processed}

\* C16 as stated: ids are '{employeeId}_{n}', n = 1, 2, 3, ... without gaps in
\* order of creation, unique, and a session with a larger n of the same
\* employee has a strictly later start_time.
C16_Original ==
    /\ UniqueIds
    /\ \A emp \in InputEmployees :
           /\ NumberedInOrder(emp)
           /\ LET mine == SessionsOf(result, emp)
              IN \A k, l \in 1..Len(mine) :
                     k < l => mine[k].start_time < mine[l].start_time

\* C16 amended: ids are '{employeeId}_{n}', n = 1, 2, 3, ... without gaps in
\* order of creation, unique, and a session with a larger n of the same
\* employee has a start_time that is not earlier.
C16_IdsNumberedInStartOrder ==
    /\ UniqueIds
    /\ \A emp \in InputEmployees :
           /\ NumberedInOrder(emp)
           /\ LET mine == SessionsOf(result, emp)
              IN \A k, l \in 1..Len(mine) :
                     k < l => mine[k].start_time <= mine[l].start_time

\* create_working_day has returned three sessions of e_1, the first two with
\* the same start_time
C16_Witness ==
    /\ pc = "merge_log_lost"
    /\ LET mine == SessionsOf(result, Emp1)
       IN /\ Len(mine) = 3
          /\ mine[1].start_time = mine[2].start_time
          /\ mine[2].start_time < mine[3].start_time
\* the sessions at the output of create_working_day, of
\* merge_log_lost_and_same_apps and of process_workdays
StageSessions ==
    {result[i] : i \in 1..Len(result)}
        \cup {working_day_df[i] : i \in 1..Len(working_day_df)}
        \cup {final_df[i] : i \in 1..Len(final_df)}

\* C17 as stated: in every session, at the three stages, the segments are in
\* ascending order of start and each segment starts exactly where the previous
\* one ends.
C17_Original ==
    \A row \in StageSessions : \A k \in 1..(Len(row.segs) - 1) :
        /\ row.segs[k].app_start_times <= row.segs[k + 1].app_start_times
        /\ row.segs[k + 1].app_start_times = row.segs[k].app_end_times

\* C17 amended: in every session, at the three stages, the segments are in
\* ascending order of start (a segment that does not end before it starts is
\* followed by one that starts no earlier) and no gap is left open: each
\* segment starts at or before the previous one's end, a filler starts exactly
\* at the previous segment's end and is followed by a segment that starts at
\* its end; only events that overlap in time start before the previous end.
C17_OrderedAndGapsCovered ==
    \A row \in StageSessions : \A k \in 1..(Len(row.segs) - 1) :
        LET this == row.segs[k]
            next == row.segs[k + 1]
        IN /\ this.app_start_times <= this.app_end_times
                  => this.app_start_times <= next.app_start_times
           /\ next.app_start_times <= this.app_end_times
           /\ this.app \in {LogLost, Pause} =>
                  next.app_start_times = this.app_end_times
           /\ next.app \in {LogLost, Pause} =>
                  next.app_start_times = this.app_end_times

\* process_workdays has returned a merged session in which two events overlap
\* and a 'Pause' bridges the two original sessions
C17_Witness ==
    /\ pc = "done"
    /\ \E n \in 1..Len(final_df) :
           /\ Len(MergesInto(DfRowOf(final_df[n]).unique_id)) >= 1
           /\ \E k \in 1..(Len(final_df[n].segs) - 1) :
                  final_df[n].segs[k + 1].app_start_times
                      < final_df[n].segs[k].app_end_times
           /\ \E k \in 1..Len(final_df[n].segs) :
                  /\ final_df[n].segs[k].app = Pause
                  /\ final_df[n].segs[k].app_durations > 0
\* C18: at the output of create_working_day, of merge_log_lost_and_same_apps
\* and of process_workdays (merged sessions included) every session has at
\* least one segment, its start_time is the start of its first segment and its
\* end_time is the end of its last segment.
C18_BoundsAreFirstStartLastEnd ==
    \A row \in StageSessions :
        /\ Len(row.segs) >= 1
        /\ row.start_time = row.segs[1].app_start_times
        /\ row.end_time = row.segs[Len(row.segs)].app_end_times

\* process_workdays has returned a session that absorbed another one, and
\* merge_log_lost_and_same_apps had folded the last segment of a session
C18_Witness ==
    /\ pc = "done"
    /\ \E n \in 1..Len(final_df) :
           /\ Len(MergesInto(DfRowOf(final_df[n]).unique_id)) >= 1
           /\ final_df[n].end_time
                  > Original(DfRowOf(final_df[n]).unique_id).end_time
    /\ \E i \in 1..Len(result) :
           /\ Len(working_day_df[i].segs) < Len(result[i].segs)
           /\ working_day_df[i].segs[Len(working_day_df[i].segs)]
                  # result[i].segs[Len(result[i].segs)]

\* C19: every session returned by add_workday_features and by process_workdays
\* (sessions made by one or more merges included) has workday_duration equal
\* to end_time - start_time of its bounds as they then are.
C19_DurationIsEndMinusStart ==
    /\ \A i \in 1..Len(enriched_df) :
           enriched_df[i].workday_duration
               = enriched_df[i].end_time - enriched_df[i].start_time
    /\ \A n \in 1..Len(final_df) :
           final_df[n].workday_duration
               = final_df[n].end_time - final_df[n].start_time

\* process_workdays has returned a session made by two merges that is longer
\* than the three original sessions together
C19_Witness ==
    /\ pc = "done"
    /\ \E n \in 1..Len(final_df) :
           LET uid == DfRowOf(final_df[n]).unique_id
               ms == MergesInto(uid)
           IN /\ Len(ms) = 2
              /\ final_df[n].end_time - final_df[n].start_time
                     > Original(uid).workday_duration
                       + Original(ms[1].from).workday_duration
                       + Original(ms[2].from).workday_duration

\* ------------------------------------------------------------ properties of merge_consecutive_rows

\* row i of s continues row i - 1: same employee, same app, and it starts
\* where that row ends
Chains(s, i) ==
    /\ i > 1
    /\ s[i].employeeId = s[i - 1].employeeId
    /\ s[i].app = s[i - 1].app
    /\ s[i].start_time = s[i - 1].end_time

\* rows i..j of s are a run in which each row continues the one before, and
\* that cannot be extended either way
IsMaximalRun(s, i, j) ==
    /\ 1 <= i /\ i <= j /\ j <= Len(s)
    /\ \A k \in (i + 1)..j : Chains(s, k)
    /\ ~Chains(s, i)
    /\ j = Len(s) \/ ~Chains(s, j + 1)

\* o is rows i..j of s made one event
IsMergeOf(o, s, i, j) ==
    /\ o.employeeId = s[i].employeeId
    /\ o.app = s[i].app
    /\ o.start_time = s[i].start_time
    /\ o.end_time = s[j].end_time
    /\ o.mouseClicks = SumSeq([k \in 1..(j - i + 1) |-> s[i + k - 1].mouseClicks])
    /\ o.keystrokes = SumSeq([k \in 1..(j - i + 1) |-> s[i + k - 1].keystrokes])
    /\ o.mouseScroll = SumSeq([k \in 1..(j - i + 1) |-> s[i + k - 1].mouseScroll])
    /\ o.mic = (\E k \in i..j : s[k].mic)
    /\ o.camera = (\E k \in i..j : s[k].camera)

\* C20: with the rows taken per employee in ascending start_time, each maximal
\* run of rows of one employee and one app in which every row starts where the
\* previous one ends comes out of merge_consecutive_rows as one event, from the
\* first row's start to the last row's end, with the counters summed and the
\* flags or-ed; nothing else is merged; and no two consecutive output events
\* of an employee have the same app with end = next start.
C20_MergesMaximalContiguousRuns ==
    pc = "merged" =>
        LET s == SortEvents(prepared_df)
            runs == {r \in (1..Len(s)) \X (1..Len(s)) : IsMaximalRun(s, r[1], r[2])}
        IN /\ Len(merged_df) = Cardinality(runs)
           /\ \A r \in runs :
                  \E n \in 1..Len(merged_df) : IsMergeOf(merged_df[n], s, r[1], r[2])
           /\ \A n \in 1..(Len(merged_df) - 1) :
                  ~(/\ merged_df[n].employeeId = merged_df[n + 1].employeeId
                    /\ merged_df[n].app = merged_df[n + 1].app
                    /\ merged_df[n].end_time = merged_df[n + 1].start_time)

\* three rows given out of order have become one event of 30 min with both
\* flags set
C20_Witness ==
    /\ pc = "merged"
    /\ Len(prepared_df) = 3
    /\ prepared_df[1].start_time > prepared_df[2].start_time
    /\ Len(merged_df) = 1
    /\ merged_df[1].end_time - merged_df[1].start_time = 30 * MINUTE
    /\ merged_df[1].mic
    /\ merged_df[1].camera

\* ------------------------------------------------------------ the steps of merge_log_lost_and_same_apps

\* the retained segments after the first k segments of a session
Retained(segs, k) == MergeSegments(<<>>, SubSeq(segs, 1, k))

\* after is before with seg folded into its last segment: one segment fewer
\* than an append would give, the last one keeping its app and start, ending
\* where seg ends, with durations and counters added and flags or-ed
IsFoldOf(after, before, seg) ==
    /\ before # <<>>
    /\ Len(after) = Len(before)
    /\ SubSeq(after, 1, Len(before) - 1) = SubSeq(before, 1, Len(before) - 1)
    /\ LET was == before[Len(before)]
           now == after[Len(after)]
       IN /\ now.app = was.app
          /\ now.app_start_times = was.app_start_times
          /\ now.app_end_times = seg.app_end_times
          /\ now.app_durations = was.app_durations + seg.app_durations
          /\ now.mouseClicks = was.mouseClicks + seg.mouseClicks
          /\ now.keystrokes = was.keystrokes + seg.keystrokes
          /\ now.mouseScroll = was.mouseScroll + seg.mouseScroll
          /\ now.mic = (was.mic \/ seg.mic)
          /\ now.camera = (was.camera \/ seg.camera)

ReconcileReturned == pc = "delete_working_days"

\* C21: after merge_log_lost_and_same_apps no session has a segment labelled
\* 'Log Lost/Software Bug', and every such segment that came after a retained
\* segment was folded into it: that segment ends where the filler ends, its
\* duration, counters and flags take the filler's in (sum, sum, or), its app
\* and start stay.
C21_LogLostFoldedIntoPrevious ==
    ReconcileReturned =>
        \A i \in 1..Len(result) :
            /\ \A k \in 1..Len(working_day_df[i].segs) :
                   working_day_df[i].segs[k].app # LogLost
            /\ working_day_df[i].segs = Retained(result[i].segs, Len(result[i].segs))
            /\ \A k \in 1..Len(result[i].segs) :
                   (/\ result[i].segs[k].app = LogLost
                    /\ Retained(result[i].segs, k - 1) # <<>>)
                       => IsFoldOf(Retained(result[i].segs, k),
                                   Retained(result[i].segs, k - 1),
                                   result[i].segs[k])

\* a segment with its flag set, then two fillers with counters: one segment
\* is returned, with the flag and the three counters' sum
C21_Witness ==
    /\ ReconcileReturned
    /\ Len(result[1].segs) = 3
    /\ result[1].segs[1].mic
    /\ result[1].segs[2].app = LogLost
    /\ result[1].segs[3].app = LogLost
    /\ Len(working_day_df[1].segs) = 1
    /\ working_day_df[1].segs[1].mic
    /\ working_day_df[1].segs[1].mouseClicks = 3

\* C22: a segment that is not 'Log Lost/Software Bug' is folded into the last
\* retained segment if and only if it has that segment's app and starts at
\* that segment's end as it then is (after any earlier fold); otherwise it is
\* appended as a new retained segment.
C22_FoldIffSameAppAndContiguous ==
    ReconcileReturned =>
        \A i \in 1..Len(result) : \A k \in 1..Len(result[i].segs) :
            LET seg == result[i].segs[k]
                before == Retained(result[i].segs, k - 1)
                after == Retained(result[i].segs, k)
            IN seg.app # LogLost =>
                   IF /\ before # <<>>
                      /\ seg.app = before[Len(before)].app
                      /\ seg.app_start_times = before[Len(before)].app_end_times
                   THEN IsFoldOf(after, before, seg)
                   ELSE after = Append(before, seg)

\* a filler moved the first segment's end, the third segment has the first's
\* app and starts at the moved end, not at the original one: it was folded;
\* the session is returned as one segment
C22_Witness ==
    /\ ReconcileReturned
    /\ Len(result[1].segs) = 3
    /\ result[1].segs[2].app = LogLost
    /\ result[1].segs[3].app = result[1].segs[1].app
    /\ result[1].segs[3].app_start_times # result[1].segs[1].app_end_times
    /\ result[1].segs[3].app_start_times = result[1].segs[2].app_end_times
    /\ Len(working_day_df[1].segs) = 1

\* C23: merge_log_lost_and_same_apps returns as many sessions as it was given,
\* in the same order, each with the employeeId, start_time and end_time it had.
C23_ReconcileKeepsRowsAndBounds ==
    ReconcileReturned =>
        /\ Len(working_day_df) = Len(result)
        /\ \A i \in 1..Len(result) :
               /\ working_day_df[i].employeeId = result[i].employeeId
               /\ working_day_df[i].start_time = result[i].start_time
               /\ working_day_df[i].end_time = result[i].end_time

\* two sessions that differ in id, start and end were given, and one of them
\* lost a segment
C23_Witness ==
    /\ ReconcileReturned
    /\ Len(result) = 2
    /\ result[1].employeeId # result[2].employeeId
    /\ result[1].start_time # result[2].start_time
    /\ result[1].end_time # result[2].end_time
    /\ \E i \in 1..Len(result) :
           Len(working_day_df[i].segs) < Len(result[i].segs)

\* ------------------------------------------------------------ one merge of process_workdays

\* C24: a step of the scan that merges next into current leaves df's row of
\* current with its session id and start_time, next's end_time, and the
\* segments it had (earlier merges included), then exactly one zero-metric
\* 'Pause' from current's end_time to next's start_time, then next's segments
\* in order; next is marked and no row of the returned frame has its id.
C24_MergeStepBuildsSurvivor ==
    [][/\ (InScan /\ Len(emp_df') = Len(emp_df) - 1) =>
              LET current == emp_df[idx + 1]
                  next == emp_df[idx + 2]
                  fi == DfIndex(df, current.unique_id)
                  li == DfIndex(df, next.unique_id)
                  n == Len(df[fi].segs)
              IN /\ df'[fi].employeeId = df[fi].employeeId
                 /\ df'[fi].unique_id = current.unique_id
                 /\ df'[fi].start_time = current.start_time
                 /\ df'[fi].end_time = next.end_time
                 /\ Len(df'[fi].segs) = n + 1 + Len(df[li].segs)
                 /\ SubSeq(df'[fi].segs, 1, n) = df[fi].segs
                 /\ IsFiller(df'[fi].segs[n + 1], Pause,
                             current.end_time, next.start_time)
                 /\ SubSeq(df'[fi].segs, n + 2, Len(df'[fi].segs)) = df[li].segs
                 /\ next.unique_id \in indices_to_drop'
                 /\ \A j \in 1..Len(df) : j # fi => df'[j] = df[j]
       /\ (pc # "done" /\ pc' = "done") =>
              /\ Len(final_df') = Len(df) - Len(merge_log)
              /\ \A k \in 1..Len(merge_log) : \A j \in 1..Len(final_df') :
                     final_df'[j].employeeId # Original(merge_log[k].from).employeeId
      ]_vars

\* two merges into one session: the second extended a segment list that the
\* first had already extended, and one row of three is returned
C24_Witness ==
    /\ pc = "done"
    /\ Len(merge_log) = 2
    /\ merge_log[1].into = merge_log[2].into
    /\ merge_log[1].gap > 0
    /\ Len(final_df) = 1
    /\ Len(final_df[1].segs) = 5
    /\ final_df[1].segs[2].app = Pause
    /\ final_df[1].segs[4].app = Pause

\* ------------------------------------------------------------ termination of the scan

\* C25: the while loop of process_workdays ends for every list of sessions of
\* an employee: each iteration either moves idx one row on and leaves emp_df
\* as long as it was, or leaves idx and makes emp_df one row shorter, and the
\* scan of every employee is left; with a single session the loop body is not
\* entered at all.
C25_MergeLoopTerminates ==
    /\ [][/\ InScan =>
                 \/ idx' = idx + 1 /\ Len(emp_df') = Len(emp_df)
                 \/ idx' = idx /\ Len(emp_df') = Len(emp_df) - 1
          /\ (pc = "pw_scan" /\ Len(emp_df) = 1) =>
                 /\ pc' = "pw_employees"
                 /\ indices_to_drop' = indices_to_drop
                 /\ merge_log' = merge_log
         ]_vars
    /\ (pc = "pw_scan") ~> (pc = "pw_employees")

\* a loop that ran three iterations over three sessions, merging once, and
\* was left
C25_Witness ==
    /\ pc = "pw_employees"
    /\ Len(df) = 3
    /\ Len(Unique(BaseIds(df))) = 1
    /\ Len(emp_df) = 2
    /\ idx = 1
    /\ Len(merge_log) = 1

\* ------------------------------------------------------------ the events in create_working_day's sessions

\* the input rows of employee emp
InputRowsOf(emp) == {r \in df_processed : r.employeeId = emp}

\* C26: create_working_day neither loses nor duplicates events: for every
\* employee of the input, the non-filler segments of its sessions, taken in
\* the order of the sessions, are its input rows, each once with its app,
\* start, end and metrics, in ascending start_time; every employee of the input
\* has at least one session (the session open at the end of its rows is
\* appended), and every session belongs to an employee of the input.
C26_EventsKeptOnceInOrder ==
    pc = "merge_log_lost" =>
        /\ \A emp \in InputEmployees :
               LET events == EventsOf(SessionsOf(result, emp))
               IN /\ SessionsOf(result, emp) # <<>>
                  /\ Len(events) = Cardinality(InputRowsOf(emp))
                  /\ \A r \in InputRowsOf(emp) :
                         \E k \in 1..Len(events) : IsSegOf(events[k], r)
                  /\ \A k \in 1..(Len(events) - 1) :
                         events[k].app_start_times <= events[k + 1].app_start_times
        /\ \A i \in 1..Len(result) :
               ExtractBase(result[i].employeeId) \in InputEmployees

\* three rows of one employee in two sessions, the first with a filler in it:
\* the rows are the three non-filler segments, the last of them in the session
\* appended after the loop
C26_Witness ==
    /\ pc = "merge_log_lost"
    /\ Cardinality(df_processed) = 3
    /\ Len(result) = 2
    /\ result[1].employeeId = FormatId(Emp1, 1)
    /\ result[2].employeeId = FormatId(Emp1, 2)
    /\ Len(result[1].segs) = 3
    /\ result[1].segs[2].app \in {LogLost, Pause}
    /\ Len(EventsOf(result)) = 3

\* ------------------------------------------------------------ the sessions of the whole pipeline

\* every session of a frame ends no earlier than it starts, and of two
\* sessions of one employee one ends before the other starts
NoOverlap(rows) ==
    \A i \in 1..Len(rows) :
        /\ rows[i].start_time <= rows[i].end_time
        /\ \A j \in 1..Len(rows) :
               (i # j /\ ExtractBase(rows[i].employeeId)
                             = ExtractBase(rows[j].employeeId))
                   => \/ rows[i].end_time < rows[j].start_time
                      \/ rows[j].end_time < rows[i].start_time

\* the session of a frame has a later session of the same employee
HasLater(rows, i) ==
    \E j \in 1..Len(rows) :
        /\ ExtractBase(rows[j].employeeId) = ExtractBase(rows[i].employeeId)
        /\ rows[j].start_time > rows[i].start_time

\* C27: with 0 < max_workday_gap <= 3 h and every event ending no earlier than
\* it starts, the sessions of one employee never overlap in [start_time,
\* end_time] at any stage of the pipeline, and in the returned frame
\* hours_until_next_workday is -1 on an employee's last session and at least 3
\* on every other: never in [0, 3), never another negative value.
C27_DisjointSessionsAndHours ==
    (/\ 0 < max_workday_gap
     /\ max_workday_gap <= MERGE_GAP_HOURS * HOUR
     /\ \A r \in df_processed : r.start_time <= r.end_time) =>
        /\ NoOverlap(result)
        /\ NoOverlap(working_day_df)
        /\ NoOverlap(filtered_df)
        /\ NoOverlap(enriched_df)
        /\ NoOverlap(NotDropped(df, indices_to_drop))
        /\ NoOverlap(final_df)
        /\ pc = "done" =>
               \A i \in 1..Len(final_df) :
                   IF HasLater(final_df, i)
                   THEN final_df[i].hours_until_next_workday >= MERGE_GAP_HOURS * HOUR
                   ELSE final_df[i].hours_until_next_workday = NO_NEXT_HOURS * HOUR

\* main_process.py's max_workday_gap: two sessions were merged and a third,
\* three hours or more later, was returned beside them
C27_Witness ==
    /\ pc = "done"
    /\ max_workday_gap = 1 * HOUR
    /\ Len(merge_log) = 1
    /\ Len(final_df) = 2
    /\ final_df[1].hours_until_next_workday >= MERGE_GAP_HOURS * HOUR
    /\ final_df[2].hours_until_next_workday = NO_NEXT_HOURS * HOUR
    /\ ExtractBase(final_df[1].employeeId) = ExtractBase(final_df[2].employeeId)

====
